---- MODULE Spec2Model ----
(***************************************************************************)
(* Model of the safehttp request pipeline: handlerWithInterceptors         *)
(* .ServeHTTP (mux.go), CommitPhase.commit (mux.go) and the terminal write *)
(* operations of ResponseWriter (response_writer.go).                      *)
(*                                                                         *)
(* One request is served through one registered handlerWithInterceptors.   *)
(* Interceptors and the handler are caller-supplied code: the model lets   *)
(* them call any terminal write operation of the ResponseWriter, with any  *)
(* Dispatcher outcome, panic on their own, or return.                      *)
(*                                                                         *)
(* SpecSetup and SpecMux model the ServeMux (mux.go): Install and Handle   *)
(* calls on a new ServeMux, then one request dispatched through the        *)
(* pattern table and the methodHandler to a registered handler.            *)
(* SpecHeader models the header guard of the ResponseWriter over several   *)
(* requests, with the csp interceptor as one of the claimants.             *)
(* SpecXsrf runs the xsrf interceptor's Before (xsrf.go) as the only       *)
(* interceptor of a handler, and SpecConc serves several requests at the   *)
(* same time through one handler.                                          *)
(***************************************************************************)
EXTENDS Integers, Sequences, FiniteSets, TLC

\* ------------------------------------------------------------------ bounds
\* Largest number of interceptors installed on the handler.
MaxInterceps == 2
\* Largest number of write operations the caller-supplied code (interceptors
\* and handler together) calls while one request is served.  A written
\* ResponseWriter makes every further call panic, so the calls of one request
\* stay below this bound on their own.
MaxOps == 2

\* --------------------------------------------------------------- constants
StatusOK == 200
StatusNoContent == 204
StatusInternalServerError == 500

\* Interceptor keys, the Configs a handler can be registered with, and the
\* nil Config an interceptor without a matching Config is given.
Keys == 1..MaxInterceps
CfgVals == {"cfgA", "cfgB"}
NilCfg == "nil"
\* Status codes the caller-supplied code passes to WriteError and Redirect.
Codes == {200, 302, 403}

VARIABLES
  interceps,        \* handlerWithInterceptors.interceps: the keys of the map
  intercepsOrder,   \* handlerWithInterceptors.intercepsOrder
  configs,          \* handlerWithInterceptors.configs: key -> Config
  pc,               \* position of the request inside ServeHTTP
  idx,              \* loop index of the Before loop / of commit (0-based, as in Go)
  rw,               \* the request's *ResponseWriter
  pending,          \* the write the handler's response value is waiting for
  log,              \* history: every invocation and write-operation call, in order
  mInterceps,       \* ServeMux.interceps: the keys of the map
  mOrder,           \* ServeMux.intercepsOrder
  mHandlers,        \* ServeMux.handlers: pattern -> method -> handlerWithInterceptors
  panicMsg,         \* the value Install or Handle panicked with
  req               \* the request handed to ServeMux.ServeHTTP, and the pattern it matched

muxVars == <<mInterceps, mOrder, mHandlers, panicMsg, req>>

vars == <<interceps, intercepsOrder, configs, pc, idx, rw, pending, log, muxVars>>

\* ---------------------------------------------------------- ResponseWriter
\* A ResponseWriter value: the written flag, the calls that reached the
\* underlying http.ResponseWriter (w.rw) or handed it to the Dispatcher, and
\* how many times the assignment w.written = true was executed; of its header,
\* the names that are claimed and the names a claimant has set a value for.
NewResponseWriter ==
  [written |-> FALSE, out |-> <<>>, marks |-> 0, claimed |-> {}, set |-> {}]

\* The outcome of a method call: the writer afterwards, and whether the call
\* panicked.
Ret(w, p) == [w |-> w, panic |-> p]

\* A call on the underlying http.ResponseWriter.
Out(w, op, code) == [w EXCEPT !.out = Append(@, [op |-> op, code |-> code])]

markWrittenNoGuard(w) == Ret([w EXCEPT !.written = TRUE, !.marks = @ + 1], FALSE)

markWrittenNoSet(w) == Ret(w, w.written)

markWritten(w) ==
  IF w.written
    THEN Ret(w, TRUE)
    ELSE Ret([w EXCEPT !.written = TRUE, !.marks = @ + 1], FALSE)

\* Write, WriteJSON and WriteTemplate: ctErr and wrErr are the Dispatcher's
\* answers (ContentType failed, serialisation failed).
Write(w, ctErr, wrErr) ==
  IF ctErr THEN Ret(w, TRUE)
  ELSE LET w1 == Out(w, "WriteHeader", StatusOK)
           w2 == Out(w1, "SetContentType", 0)
           w3 == Out(w2, "d.Write", 0)
       IN  IF wrErr THEN Ret(w3, TRUE) ELSE markWritten(w3)

WriteJSON(w, ctErr, wrErr) ==
  IF ctErr THEN Ret(w, TRUE)
  ELSE LET w1 == Out(w, "WriteHeader", StatusOK)
           w2 == Out(w1, "SetContentType", 0)
           w3 == Out(w2, "d.WriteJSON", 0)
       IN  IF wrErr THEN Ret(w3, TRUE) ELSE markWritten(w3)

WriteTemplate(w, ctErr, wrErr) ==
  IF ctErr THEN Ret(w, TRUE)
  ELSE LET w1 == Out(w, "WriteHeader", StatusOK)
           w2 == Out(w1, "SetContentType", 0)
           w3 == Out(w2, "d.ExecuteTemplate", 0)
       IN  IF wrErr THEN Ret(w3, TRUE) ELSE markWritten(w3)

NoContent(w) ==
  LET m == markWritten(w)
  IN  IF m.panic THEN m
      ELSE Ret(Out(m.w, "WriteHeader", StatusNoContent), FALSE)

WriteErrorEmitsFirst(w, code) == markWritten(Out(w, "http.Error", code))

WriteErrorEmitsNothing(w, code) == markWritten(w)

\* http.Error(w.rw, text, code): error headers, WriteHeader(code), text body.
WriteError(w, code) ==
  LET m == markWritten(w)
  IN  IF m.panic THEN m
      ELSE Ret(Out(m.w, "http.Error", code), FALSE)

\* if code < 300 || code >= 400 { panic("wrong method called") }
NotRedirectCode(code) == code < 300 \/ code >= 400

\* http.Redirect(w.rw, r, url, code): Location header and WriteHeader(code).
Redirect(w, code) ==
  LET m == markWritten(w)
  IN  IF m.panic THEN m
      ELSE IF NotRedirectCode(code) THEN Ret(m.w, TRUE)
      ELSE Ret(Out(m.w, "http.Redirect", code), FALSE)

\* The status codes handed to the underlying http.ResponseWriter, in order.
RECURSIVE StatusCodes(_)
StatusCodes(out) ==
  IF out = <<>> THEN <<>>
  ELSE LET c == Head(out)
       IN  IF c.op \in {"WriteHeader", "http.Error", "http.Redirect"}
             THEN <<c.code>> \o StatusCodes(Tail(out))
             ELSE StatusCodes(Tail(out))

\* ------------------------------------------------------------------ history
\* One log entry.  ev: what happened; by: the code that did it
\* ("before", "handler", "commit", "engine"); key, cfg: the interceptor and
\* the Config it was given; code: the status code passed; pre: written before
\* the call; ok: the call returned normally (for a return entry: written at
\* the return).
Ev(ev, by, key, cfg, code, pre, ok) ==
  [ev |-> ev, by |-> by, key |-> key, cfg |-> cfg, code |-> code,
   pre |-> pre, ok |-> ok]

WriteOps == {"Write", "WriteJSON", "WriteTemplate", "NoContent", "WriteError",
             "Redirect"}

\* The number of write operations called so far by caller-supplied code.
UserOps == Cardinality({n \in 1..Len(log) :
                          log[n].ev \in WriteOps /\ log[n].by # "engine"})

\* The code running at pc, when it is caller-supplied code.
By == CASE pc = "inBefore"  -> "before"
        [] pc = "inHandler" -> "handler"
        [] pc = "inCommit"  -> "commit"
        [] OTHER            -> "engine"

InUserCode == pc \in {"inBefore", "inHandler", "inCommit"}

\* Go's map lookup h.configs[key]: the zero value for a missing key.
ConfigOf(cfgs, key) == IF key \in DOMAIN cfgs THEN cfgs[key] ELSE NilCfg

\* No response value is waiting for the Commit phase.
NoPending == "none"

\* -------------------------------------------------------------------- Init
\* Sequences of distinct keys, at most MaxInterceps long.
Orders == {s \in UNION {[1..n -> Keys] : n \in 0..MaxInterceps} :
             \A a, b \in 1..Len(s) : a # b => s[a] # s[b]}

Range(s) == {s[n] : n \in 1..Len(s)}

\* The empty pattern: no pattern was matched.
NoPattern == [segs |-> <<>>, slash |-> FALSE]

NoReq == [host |-> "none", path |-> NoPattern, method |-> "none",
          pattern |-> NoPattern]

\* NewServeMux: no handler and no interceptor yet.
NewServeMux ==
  /\ mInterceps = {}
  /\ mOrder = <<>>
  /\ mHandlers = <<>>
  /\ panicMsg = "none"
  /\ req = NoReq

Init ==
  /\ intercepsOrder \in Orders
  /\ interceps = Range(intercepsOrder)
  /\ configs \in UNION {[S -> CfgVals] : S \in SUBSET interceps}
  /\ pc = "idle"
  /\ idx = 0
  /\ rw = NewResponseWriter
  /\ pending = NoPending
  /\ log = <<>>
  /\ NewServeMux

\* ------------------------------------------- handlerWithInterceptors.ServeHTTP
\* ServeHTTP begins: the request gets a fresh ResponseWriter and the deferred
\* recover is armed.
ServeHTTPStart ==
  /\ pc = "idle"
  /\ rw' = NewResponseWriter
  /\ pc' = "before"
  /\ idx' = 0
  /\ UNCHANGED <<muxVars, interceps, intercepsOrder, configs, pending, log>>

\* The key the Before loop visits at 0-based index n.
BeforeKey(order, n) == order[n + 1]

\* h.interceps[key].Before(rw, ir, h.configs[key])
InvokeBefore ==
  /\ pc = "before"
  /\ idx < Len(intercepsOrder)
  /\ LET key == BeforeKey(intercepsOrder, idx)
     IN  log' = Append(log, Ev("Before", "engine", key, ConfigOf(configs, key),
                               0, rw.written, TRUE))
  /\ pc' = "inBefore"
  /\ UNCHANGED <<muxVars, interceps, intercepsOrder, configs, idx, rw, pending>>

BeforeNeverStops(w) == FALSE

\* if rw.written { return }, after a Before
BeforeStops(w) == w.written

\* Before returns to the loop.
BeforeReturn ==
  /\ pc = "inBefore"
  /\ log' = Append(log, Ev("BeforeRet", "engine", BeforeKey(intercepsOrder, idx),
                            NilCfg, 0, rw.written, rw.written))
  /\ IF BeforeStops(rw)
       THEN pc' = "done" /\ idx' = idx
       ELSE pc' = "before" /\ idx' = idx + 1
  /\ UNCHANGED <<muxVars, interceps, intercepsOrder, configs, rw, pending>>

\* h.handler.ServeHTTP(rw, ir), once the Before loop has run to its end
InvokeHandler ==
  /\ pc = "before"
  /\ idx >= Len(intercepsOrder)
  /\ log' = Append(log, Ev("Handler", "engine", 0, NilCfg, 0, rw.written, TRUE))
  /\ pc' = "inHandler"
  /\ UNCHANGED <<muxVars, interceps, intercepsOrder, configs, idx, rw, pending>>

NoContentAlways(w) == TRUE

\* if !rw.written { rw.NoContent() }
NeedsNoContent(w) == ~w.written

\* The handler returns: the implicit 204 when nothing was written.
HandlerReturn ==
  /\ pc = "inHandler"
  /\ IF NeedsNoContent(rw)
       THEN LET res == NoContent(rw)
            IN  /\ rw' = res.w
                /\ log' = log \o <<Ev("HandlerRet", "engine", 0, NilCfg, 0,
                                       rw.written, rw.written),
                                    Ev("NoContent", "engine", 0, NilCfg,
                                       StatusNoContent, rw.written, ~res.panic)>>
                /\ pc' = IF res.panic THEN "panic" ELSE "done"
       ELSE /\ rw' = rw
            /\ log' = Append(log, Ev("HandlerRet", "engine", 0, NilCfg, 0,
                                      rw.written, rw.written))
            /\ pc' = "done"
  /\ UNCHANGED <<muxVars, interceps, intercepsOrder, configs, idx, pending>>

\* The deferred function: recover() is non-nil, rw.WriteError(500).  A panic
\* of WriteError leaves ServeHTTP.
Recover ==
  /\ pc = "panic"
  /\ LET res == WriteError(rw, StatusInternalServerError)
     IN  /\ rw' = res.w
         /\ log' = Append(log, Ev("WriteError", "engine", 0, NilCfg,
                                   StatusInternalServerError, rw.written,
                                   ~res.panic))
         /\ pc' = IF res.panic THEN "propagated" ELSE "done"
  /\ UNCHANGED <<muxVars, interceps, intercepsOrder, configs, idx, pending>>

\* ----------------------------------------------------- caller-supplied code
\* A write operation called by the running interceptor or handler: the writer
\* becomes res.w and a panic unwinds to the deferred function of ServeHTTP.
UserCall(name, code, res) ==
  /\ InUserCode
  /\ UserOps < MaxOps
  /\ rw' = res.w
  /\ log' = Append(log, Ev(name, By, 0, NilCfg, code, rw.written, ~res.panic))
  /\ pc' = IF res.panic THEN "panic" ELSE pc
  /\ UNCHANGED <<muxVars, interceps, intercepsOrder, configs, idx, pending>>

\* The handler's first response value goes through the Commit phase; every
\* other call of Write, WriteJSON and WriteTemplate runs the method at once.
StartsCommit == pc = "inHandler" /\ ~rw.written

CallWrite ==
  \E ctErr, wrErr \in BOOLEAN :
    ~StartsCommit /\ UserCall("Write", StatusOK, Write(rw, ctErr, wrErr))

CallWriteJSON ==
  \E ctErr, wrErr \in BOOLEAN :
    ~StartsCommit /\ UserCall("WriteJSON", StatusOK, WriteJSON(rw, ctErr, wrErr))

CallWriteTemplate ==
  \E ctErr, wrErr \in BOOLEAN :
    ~StartsCommit
    /\ UserCall("WriteTemplate", StatusOK, WriteTemplate(rw, ctErr, wrErr))

CallNoContent == UserCall("NoContent", StatusNoContent, NoContent(rw))

CallWriteError == \E code \in Codes : UserCall("WriteError", code, WriteError(rw, code))

CallRedirect == \E code \in Codes : UserCall("Redirect", code, Redirect(rw, code))

\* The running interceptor or handler panics on its own.
UserPanic ==
  /\ InUserCode
  /\ log' = Append(log, Ev("Panic", By, 0, NilCfg, 0, rw.written, FALSE))
  /\ pc' = "panic"
  /\ UNCHANGED <<muxVars, interceps, intercepsOrder, configs, idx, rw, pending>>

\* ------------------------------------------------------------ Commit phase
\* The handler produces a response value while nothing is written: the
\* Commit phase runs on it before it is serialised.
HandlerResponds ==
  \E kind \in {"Write", "WriteJSON", "WriteTemplate"} :
    /\ StartsCommit
    /\ UserOps < MaxOps
    /\ pending' = kind
    /\ pc' = "commit"
    /\ idx' = Len(intercepsOrder) - 1
    /\ UNCHANGED <<muxVars, interceps, intercepsOrder, configs, rw, log>>

commitKeyForward(order, n) == order[Len(order) - n]

\* key := c.IntercepsOrder[i]
commitKey(order, n) == order[n + 1]

\* cfg := c.Configs[key]
commitCfg(cfgs, order, n) == ConfigOf(cfgs, commitKey(order, n))

\* it.Commit(w, c.Req, resp, cfg), for i from len(c.IntercepsOrder)-1 down to 0
InvokeCommit ==
  /\ pc = "commit"
  /\ idx >= 0
  /\ log' = Append(log, Ev("Commit", "engine", commitKey(intercepsOrder, idx),
                            commitCfg(configs, intercepsOrder, idx), 0,
                            rw.written, TRUE))
  /\ pc' = "inCommit"
  /\ UNCHANGED <<muxVars, interceps, intercepsOrder, configs, idx, rw, pending>>

\* if w.rw.written { return }, after a Commit
commitStops(w) == w.written

\* Commit returns to the loop of commit.
CommitReturn ==
  /\ pc = "inCommit"
  /\ log' = Append(log, Ev("CommitRet", "engine", commitKey(intercepsOrder, idx),
                            NilCfg, 0, rw.written, rw.written))
  /\ IF commitStops(rw)
       THEN pc' = "commitEnd" /\ idx' = idx
       ELSE pc' = "commit" /\ idx' = idx - 1
  /\ UNCHANGED <<muxVars, interceps, intercepsOrder, configs, rw, pending>>

\* The response value after the Commit phase.
Serialise(w, kind, ctErr, wrErr) ==
  CASE kind = "Write"         -> Write(w, ctErr, wrErr)
    [] kind = "WriteJSON"     -> WriteJSON(w, ctErr, wrErr)
    [] kind = "WriteTemplate" -> WriteTemplate(w, ctErr, wrErr)

\* commit has returned: a response written by a Commit replaces the
\* handler's, otherwise the handler's response value is written.
CommitDone ==
  /\ \/ pc = "commitEnd"
     \/ pc = "commit" /\ idx < 0
  /\ IF rw.written
       THEN /\ rw' = rw
            /\ log' = log
            /\ pc' = "inHandler"
       ELSE \E ctErr, wrErr \in BOOLEAN :
              LET res == Serialise(rw, pending, ctErr, wrErr)
              IN  /\ rw' = res.w
                  /\ log' = Append(log, Ev(pending, "handler", 0, NilCfg,
                                            StatusOK, rw.written, ~res.panic))
                  /\ pc' = IF res.panic THEN "panic" ELSE "inHandler"
  /\ pending' = NoPending
  /\ UNCHANGED <<muxVars, interceps, intercepsOrder, configs, idx>>

\* ------------------------------------------------------------ specification
Next ==
  \/ ServeHTTPStart
  \/ InvokeBefore
  \/ BeforeReturn
  \/ InvokeHandler
  \/ HandlerReturn
  \/ Recover
  \/ CallWrite
  \/ CallWriteJSON
  \/ CallWriteTemplate
  \/ CallNoContent
  \/ CallWriteError
  \/ CallRedirect
  \/ UserPanic
  \/ HandlerResponds
  \/ InvokeCommit
  \/ CommitReturn
  \/ CommitDone

Spec == Init /\ [][Next]_vars

\* ----------------------------------------------------------------- ServeMux
\* Largest number of Handle calls that register a handler.
MaxHandles == 2

StatusNotFound == 404
StatusMethodNotAllowed == 405
StatusMovedPermanently == 301

\* A pattern or a request path: its segments, and whether it ends in "/".
\* "/img" is P(<<"img">>, FALSE), the subtree "/img/" is P(<<"img">>, TRUE).
P(segs, slash) == [segs |-> segs, slash |-> slash]

Patterns == {P(<<"img">>, FALSE), P(<<"img">>, TRUE)}
Paths == {P(<<"img">>, FALSE), P(<<"img", "x">>, FALSE), P(<<"other">>, FALSE)}
Methods == {"GET", "POST"}
\* The domains NewServeMux was given, and the hosts of requests.
Domains == {"good.test"}
Hosts == {"good.test", "evil.test"}

\* The Configs of one Handle call, in the order passed.
CfgSeqs == {<<>>, <<"cfgA">>, <<"cfgA", "cfgB">>}

\* Config.Match: cfgA matches the interceptor installed under key 1 only,
\* cfgB matches every interceptor.
Match(cfg, key) == cfg = "cfgB" \/ key = 1

\* m with m[x] = v
Put(m, x, v) == [y \in DOMAIN m \cup {x} |-> IF y = x THEN v ELSE m[y]]

bindCfgUnmatched(acc, cfg, keys) == [k \in keys |-> cfg]

\* for k, it := range m.interceps { if cfg.Match(it) { cfgMap[k] = cfg } }
bindCfg(acc, cfg, keys) ==
  [k \in DOMAIN acc \cup {k \in keys : Match(cfg, k)} |->
     IF k \in keys /\ Match(cfg, k) THEN cfg ELSE acc[k]]

\* cfgMap := map[string]Config{}; for _, cfg := range cfgs { ... }
RECURSIVE cfgMapFrom(_, _, _)
cfgMapFrom(acc, cfgs, keys) ==
  IF cfgs = <<>> THEN acc
  ELSE cfgMapFrom(bindCfg(acc, Head(cfgs), keys), Tail(cfgs), keys)

cfgMap(cfgs, keys) == cfgMapFrom(<<>>, cfgs, keys)

\* The (pattern, method) pairs that have a handler.
Registered == {pm \in Patterns \X Methods :
                 pm[1] \in DOMAIN mHandlers /\ pm[2] \in DOMAIN mHandlers[pm[1]]}

methodNeverRegistered(mh, method) == FALSE

\* if _, ok := mh.handlers[method]; ok { panic("method already registered") }
methodRegistered(mh, method) == method \in DOMAIN mh

\* ServeMux.Handle.  The first call for a (pattern, method) pair passes
\* handler 1, a later call for the pair handler 2; cfgs and installed (the
\* number of interceptors installed at the call) are kept with the handler
\* as history.
ServeMuxHandle ==
  \E pattern \in Patterns, method \in Methods, cfgs \in CfgSeqs :
    /\ pc = "setup"
    /\ Cardinality(Registered) < MaxHandles \/ <<pattern, method>> \in Registered
    /\ LET hi == [handler        |-> IF <<pattern, method>> \in Registered
                                       THEN 2 ELSE 1,
                  configs        |-> cfgMap(cfgs, mInterceps),
                  intercepsOrder |-> mOrder,
                  cfgs           |-> cfgs,
                  installed      |-> Len(mOrder)]
       IN  IF pattern \notin DOMAIN mHandlers
             THEN /\ mHandlers' = Put(mHandlers, pattern, Put(<<>>, method, hi))
                  /\ UNCHANGED <<pc, panicMsg>>
             ELSE IF methodRegistered(mHandlers[pattern], method)
               THEN /\ pc' = "fatal"
                    /\ panicMsg' = "method already registered"
                    /\ UNCHANGED mHandlers
               ELSE /\ mHandlers' =
                         Put(mHandlers, pattern, Put(mHandlers[pattern], method, hi))
                    /\ UNCHANGED <<pc, panicMsg>>
    /\ UNCHANGED <<interceps, intercepsOrder, configs, idx, rw, pending, log,
                   mInterceps, mOrder, req>>

keyNeverExists(keys, key) == FALSE

\* if _, exists := m.interceps[key]; exists { panic(...) }
keyExists(keys, key) == key \in keys

\* ServeMux.Install
ServeMuxInstall ==
  \E key \in Keys :
    /\ pc = "setup"
    /\ IF keyExists(mInterceps, key)
         THEN /\ pc' = "fatal"
              /\ panicMsg' = "interceptor with same key already installed"
              /\ UNCHANGED <<mInterceps, mOrder>>
         ELSE /\ mInterceps' = mInterceps \cup {key}
              /\ mOrder' = Append(mOrder, key)
              /\ UNCHANGED <<pc, panicMsg>>
    /\ UNCHANGED <<interceps, intercepsOrder, configs, idx, rw, pending, log,
                   mHandlers, req>>

\* ---------------------------------------------------------------- dispatch
\* The pattern names the path itself.
Exact(pat, path) == pat = path

\* The path lies in the subtree the pattern names.
InSubtree(pat, path) ==
  /\ pat.slash
  /\ Len(pat.segs) <= Len(path.segs)
  /\ SubSeq(path.segs, 1, Len(pat.segs)) = pat.segs
  /\ Len(pat.segs) = Len(path.segs) => path.slash

\* The path names a registered subtree root without its trailing slash and
\* is not registered itself.
BareSubtreeRoot(pats, path) ==
  /\ ~path.slash
  /\ path \notin pats
  /\ P(path.segs, TRUE) \in pats

\* The registered patterns that match the path.
Matching(pats, path) == {p \in pats : Exact(p, path) \/ InSubtree(p, path)}

\* The longest of the matching patterns.
Longest(ps) == CHOOSE p \in ps : \A q \in ps : Len(q.segs) <= Len(p.segs)

hostAlwaysAllowed(host) == TRUE

\* m.domains[r.Host]
hostAllowed(host) == host \in Domains

methodAlwaysFound(mh, method) == TRUE

\* h, ok := m.handlers[r.Method]: ok
methodFound(mh, method) == method \in DOMAIN mh

\* The zero handlerWithInterceptors.
ZeroHandler ==
  [handler |-> 0, configs |-> <<>>, intercepsOrder |-> <<>>, cfgs |-> <<>>,
   installed |-> 0]

\* h, ok := m.handlers[r.Method]: h, the zero value when the key is missing
handlerFor(mh, method) == IF method \in DOMAIN mh THEN mh[method] ELSE ZeroHandler

\* The intercepsOrder of the handlerWithInterceptors a request runs.
pipelineOrderOfMux(hi, order) == order

pipelineOrder(hi, order) == hi.intercepsOrder

\* ServeMux.ServeHTTP: the pattern table answers a bare subtree root with a
\* redirect and an unmatched path with 404; methodHandler.ServeHTTP answers
\* 404 for a host outside the domains and 405 for a method without handler;
\* otherwise handlerWithInterceptors.ServeHTTP begins.
MuxServeHTTP ==
  \E host \in Hosts, path \in Paths, method \in Methods :
    /\ pc = "setup"
    /\ idx' = 0
    /\ UNCHANGED <<pending, log, mInterceps, mOrder, mHandlers, panicMsg>>
    /\ LET pats == DOMAIN mHandlers
           Reply(op, code) ==
             /\ rw' = Out(NewResponseWriter, op, code)
             /\ pc' = "done"
             /\ UNCHANGED <<interceps, intercepsOrder, configs>>
       IN  IF BareSubtreeRoot(pats, path)
             THEN /\ req' = [host |-> host, path |-> path, method |-> method,
                             pattern |-> NoPattern]
                  /\ Reply("http.Redirect", StatusMovedPermanently)
           ELSE IF Matching(pats, path) = {}
             THEN /\ req' = [host |-> host, path |-> path, method |-> method,
                             pattern |-> NoPattern]
                  /\ Reply("http.Error", StatusNotFound)
           ELSE LET pat == Longest(Matching(pats, path))
                    mh  == mHandlers[pat]
                IN  /\ req' = [host |-> host, path |-> path, method |-> method,
                               pattern |-> pat]
                    /\ IF ~hostAllowed(host)
                         THEN Reply("http.Error", StatusNotFound)
                       ELSE IF ~methodFound(mh, method)
                         THEN Reply("http.Error", StatusMethodNotAllowed)
                       ELSE /\ rw' = NewResponseWriter
                            /\ pc' = "before"
                            /\ interceps' = mInterceps
                            /\ intercepsOrder' =
                                 pipelineOrder(handlerFor(mh, method), mOrder)
                            /\ configs' = handlerFor(mh, method).configs

\* The nil Interceptor.
NilInterceptor == 0

\* ResponseWriter.Interceptor(key): mp, ok := w.muxInterceps[key]; the
\* interceptor installed under the key stands for itself.
Interceptor(muxInterceps, key) ==
  IF key \in muxInterceps THEN key ELSE NilInterceptor

InitMux ==
  /\ interceps = {}
  /\ intercepsOrder = <<>>
  /\ configs = <<>>
  /\ pc = "setup"
  /\ idx = 0
  /\ rw = NewResponseWriter
  /\ pending = NoPending
  /\ log = <<>>
  /\ NewServeMux

\* Setup, then one request whose interceptors and handler write nothing.
NextMux ==
  \/ ServeMuxInstall
  \/ ServeMuxHandle
  \/ MuxServeHTTP
  \/ InvokeBefore
  \/ BeforeReturn
  \/ InvokeHandler
  \/ HandlerReturn

SpecMux == InitMux /\ [][NextMux]_vars

\* The setup alone: Install and Handle calls on a new ServeMux.
NextSetup ==
  \/ ServeMuxInstall
  \/ ServeMuxHandle

SpecSetup == InitMux /\ [][NextSetup]_vars

\* ------------------------------------------------------------------ Header
\* Largest number of requests served one after the other.
MaxRequests == 2
\* Largest number of Claim calls the caller-supplied code makes in a request.
MaxClaims == 2

\* The headers the csp Interceptor owns, in the order it claims them, and the
\* header names the components of a request claim.
CSPHeaders == <<"Content-Security-Policy", "Content-Security-Policy-Report-Only">>
NameOrder == CSPHeaders \o <<"X-Xss-Protection">>
HeaderNames == Range(NameOrder)

HeaderEmpty(w) == {}

\* ResponseWriter.Header: return w.header, the guard of this request
Header(w) == w.claimed

\* The outcome of Claim: the writer afterwards, and whether it failed.
Claimed(w, err) == [w |-> w, err |-> err]

\* Header.Claim(name): fails when the name is claimed, claims it otherwise.
Claim(w, name) ==
  IF name \in Header(w)
    THEN Claimed(w, TRUE)
    ELSE Claimed([w EXCEPT !.claimed = Header(w) \cup {name}], FALSE)

\* The set functions Claim returned, called for the headers names.
SetClaimed(w, names) == [w EXCEPT !.set = @ \cup names]

\* The Claim calls of request r so far.
ClaimsOf(r) == {n \in 1..Len(log) : log[n].ev = "Claim" /\ log[n].key = r}

\* An interceptor's Before or the handler claims a header.
HeaderClaim ==
  \E name \in HeaderNames, by \in {"before", "handler"} :
    /\ pc = "serving"
    /\ Cardinality({n \in ClaimsOf(idx) : log[n].by # "csp"}) < MaxClaims
    /\ LET c == Claim(rw, name)
       IN  /\ rw' = c.w
           /\ log' = Append(log, Ev("Claim", by, idx, name, 0, rw.written, ~c.err))
    /\ UNCHANGED <<muxVars, interceps, intercepsOrder, configs, pc, idx, pending>>

\* csp.Interceptor.Before with the headers policies to send: it claims both
\* headers it owns, answers 500 when a claim fails, and sets the policies.
CSPBefore ==
  \E policies \in SUBSET Range(CSPHeaders) :
    /\ pc = "serving"
    /\ ~rw.written
    /\ ~\E n \in 1..Len(log) : log[n].ev = "Before" /\ log[n].key = idx
    /\ LET c1 == Claim(rw, CSPHeaders[1])
           c2 == Claim(c1.w, CSPHeaders[2])
           called == Ev("Before", "csp", idx, NilCfg, 0, rw.written, TRUE)
           claim(n, c) == Ev("Claim", "csp", idx, CSPHeaders[n], 0, rw.written, ~c.err)
           failed(w) == Ev("WriteError", "csp", idx, NilCfg,
                           StatusInternalServerError, w.written, TRUE)
       IN  IF c1.err
             THEN /\ rw' = WriteError(c1.w, StatusInternalServerError).w
                  /\ log' = log \o <<called, claim(1, c1), failed(c1.w)>>
                  /\ pc' = "done"
           ELSE IF c2.err
             THEN /\ rw' = WriteError(c2.w, StatusInternalServerError).w
                  /\ log' = log \o <<called, claim(1, c1), claim(2, c2), failed(c2.w)>>
                  /\ pc' = "done"
           ELSE /\ rw' = SetClaimed(c2.w, policies)
                /\ log' = log \o <<called, claim(1, c1), claim(2, c2)>>
                /\ pc' = "serving"
    /\ UNCHANGED <<muxVars, interceps, intercepsOrder, configs, idx, pending>>

\* What the history keeps of a request that is over: the header names it
\* claimed, in the order of NameOrder.
Summary(r) ==
  LET won(name) == \E n \in ClaimsOf(r) : log[n].cfg = name /\ log[n].ok
      names == SelectSeq(NameOrder, won)
  IN  [i \in 1..Len(names) |-> Ev("Claim", "earlier", r, names[i], 0, FALSE, TRUE)]

\* The next request: handlerWithInterceptors.ServeHTTP makes its ResponseWriter.
NewRequest ==
  /\ pc \in {"serving", "done"}
  /\ idx < MaxRequests
  /\ rw' = NewResponseWriter
  /\ idx' = idx + 1
  /\ pc' = "serving"
  /\ LET earlier(e) == e.key < idx
     IN  log' = SelectSeq(log, earlier) \o Summary(idx)
  /\ UNCHANGED <<muxVars, interceps, intercepsOrder, configs, pending>>

\* The first request has its ResponseWriter.
InitHeader ==
  /\ interceps = {}
  /\ intercepsOrder = <<>>
  /\ configs = <<>>
  /\ pc = "serving"
  /\ idx = 1
  /\ rw = NewResponseWriter
  /\ pending = NoPending
  /\ log = <<>>
  /\ NewServeMux

NextHeader ==
  \/ HeaderClaim
  \/ CSPBefore
  \/ NewRequest

SpecHeader == InitHeader /\ [][NextHeader]_vars

\* ------------------------------------------------------------------ claims
LogIdx == 1..Len(log)

IsBefore(e) == e.ev = "Before"
IsCommit(e) == e.ev = "Commit"

\* The Before and the Commit invocations so far, in the order they were made.
Befores == SelectSeq(log, IsBefore)
Commits == SelectSeq(log, IsCommit)

\* The step is one call of a terminal write operation.
WriteOpStep ==
  /\ Len(log') = Len(log) + 1
  /\ log'[Len(log')].ev \in WriteOps

\* C1: the write-state flag is 'not written' when the ResponseWriter is
\* created, is set at most once, and once set is never cleared, whatever
\* write operations are called.
C1_WrittenAtMostOnce ==
  [][ /\ (pc = "idle" /\ pc' # "idle") => (~rw'.written /\ rw'.marks = 0)
      /\ rw.written => (rw'.written /\ rw'.marks = rw.marks)
      /\ rw'.marks <= 1
      /\ rw'.written <=> rw'.marks = 1 ]_vars

\* C1 witness: a write operation was called on a written ResponseWriter.
C1_Witness ==
  /\ rw.written /\ rw.marks = 1
  /\ \E n \in LogIdx : log[n].ev \in WriteOps /\ log[n].pre

\* C2 (as claimed): a terminal write operation called on a written
\* ResponseWriter panics and makes no call on the underlying writer and hands
\* nothing to the Dispatcher.
C2_SecondWriteEmitsNothing ==
  [][ (rw.written /\ WriteOpStep)
        => (pc' \in {"panic", "propagated"} /\ rw'.out = rw.out) ]_vars

\* C3: Before is invoked on the interceptors in installation order, and
\* after a Before that returns with the writer written no further Before and
\* no handler is invoked.
C3_BeforeOrderAndStop ==
  /\ Len(Befores) <= Len(intercepsOrder)
  /\ \A k \in 1..Len(Befores) : Befores[k].key = intercepsOrder[k]
  /\ \A n, m \in LogIdx :
        (n < m /\ log[n].ev = "BeforeRet" /\ log[n].ok)
          => log[m].ev \notin {"Before", "Handler"}

\* C3 witness: the first of two interceptors wrote, and the request is over.
C3_Witness ==
  /\ pc = "done"
  /\ Len(intercepsOrder) = 2
  /\ \E n \in LogIdx : /\ log[n].ev = "BeforeRet" /\ log[n].ok
                        /\ log[n].key = intercepsOrder[1]

\* C4: a handler that returns with nothing written gets exactly one 204 from
\* the engine, and a handler that returns with the writer written gets no
\* NoContent call from the engine.
C4_ImplicitNoContent ==
  \A n \in LogIdx :
    log[n].ev = "HandlerRet" =>
      IF log[n].ok
        THEN \A m \in LogIdx : ~(log[m].ev = "NoContent" /\ log[m].by = "engine")
        ELSE /\ pc = "done"
             /\ rw.written
             /\ rw.out = <<[op |-> "WriteHeader", code |-> StatusNoContent]>>

\* C4 witness: the handler returned without writing, after two Before that
\* did not write either.
C4_Witness ==
  /\ Len(Befores) = 2
  /\ \E n \in LogIdx : log[n].ev = "HandlerRet" /\ ~log[n].ok

\* C5 (as claimed): a panic recovered while nothing is marked written ends
\* the request with 500 as the only status handed to the underlying writer.
C5_RecoveredPanicIsOnly500 ==
  (\E n \in LogIdx : /\ log[n].ev = "WriteError" /\ log[n].by = "engine"
                      /\ ~log[n].pre)
    => (pc = "done" /\ StatusCodes(rw.out) = <<StatusInternalServerError>>)

\* C6: a panic while the writer is written makes the engine hand nothing
\* more to the underlying writer, and the panic leaves ServeHTTP.
C6_PanicAfterWritePropagates ==
  [][ (pc = "panic" /\ rw.written)
        => (pc' = "propagated" /\ rw'.out = rw.out) ]_vars

\* C6 witness: a panic left ServeHTTP with the writer written.
C6_Witness ==
  /\ pc = "propagated"
  /\ rw.written
  /\ log[Len(log)].ev = "WriteError" /\ log[Len(log)].by = "engine"

\* C7 (as claimed): Redirect with a non-3xx code on an unwritten writer ends
\* the request with a 500 response.
C7_BadRedirectGets500 ==
  ( /\ pc \in {"done", "propagated"}
    /\ \E n \in LogIdx : /\ log[n].ev = "Redirect" /\ ~log[n].pre
                          /\ NotRedirectCode(log[n].code) )
    => (pc = "done" /\ StatusCodes(rw.out) = <<StatusInternalServerError>>)

\* C8 (as claimed): WriteError with a code outside 400..599 panics and emits
\* no response with that code.
C8_WriteErrorRejectsNonErrorCodes ==
  /\ \A n \in LogIdx :
        (log[n].ev = "WriteError" /\ log[n].code \notin 400..599) => ~log[n].ok
  /\ \A n \in 1..Len(rw.out) :
        rw.out[n].op = "http.Error" => rw.out[n].code \in 400..599

\* C9: once a Before interceptor has performed a terminal write, no Commit
\* and no handler is invoked for the request.
C9_NoCommitAfterBeforeWrite ==
  (\E n \in LogIdx : log[n].ev \in WriteOps /\ log[n].by = "before" /\ log[n].ok)
    => \A m \in LogIdx : log[m].ev \notin {"Commit", "Handler"}

\* C9 witness: the first interceptor did not write, the second wrote 403,
\* and the request is over.
C9_Witness ==
  /\ pc = "done"
  /\ Len(Befores) = 2
  /\ \E n \in LogIdx : /\ log[n].ev = "WriteError" /\ log[n].by = "before"
                        /\ log[n].code = 403 /\ log[n].ok
  /\ \E n \in LogIdx : log[n].ev = "BeforeRet" /\ ~log[n].ok

\* C10: the Commit phase invokes Commit in the reverse of the Before order,
\* each with the Config bound to its interceptor, stops after the first
\* Commit that returns with the writer written, and otherwise reaches every
\* interceptor before the handler's response is written.
C10_CommitReverseOrder ==
  /\ Len(Commits) <= Len(Befores)
  /\ \A k \in 1..Len(Commits) :
        LET b == Befores[Len(Befores) + 1 - k]
        IN  /\ Commits[k].key = b.key
            /\ Commits[k].cfg = b.cfg
            /\ Commits[k].cfg = ConfigOf(configs, Commits[k].key)
  /\ \A n, m \in LogIdx :
        (n < m /\ log[n].ev = "CommitRet" /\ log[n].ok) => log[m].ev # "Commit"
  /\ (\E n \in LogIdx : /\ log[n].ev \in {"Write", "WriteJSON", "WriteTemplate"}
                          /\ log[n].by = "handler" /\ ~log[n].pre)
       => Len(Commits) = Len(intercepsOrder)

\* C10 witness: two Commit ran, with different Configs, and the second one
\* wrote.
C10_Witness ==
  /\ Len(Commits) = 2
  /\ Commits[1].cfg # Commits[2].cfg
  /\ log[Len(log)].ev = "CommitRet" /\ log[Len(log)].ok

\* C11: after the handler panics with nothing written, no Commit, no Before
\* and no NoContent is executed, and the request ends with the single 500
\* response of the engine.
C11_HandlerPanicGets500 ==
  \A n \in LogIdx :
    (log[n].ev = "Panic" /\ log[n].by = "handler" /\ ~log[n].pre) =>
      /\ \A m \in LogIdx : log[m].ev \notin {"Commit", "NoContent"}
      /\ \A m \in LogIdx :
            m > n => /\ m = n + 1
                     /\ log[m].ev = "WriteError" /\ log[m].by = "engine"
                     /\ log[m].code = StatusInternalServerError /\ log[m].ok
      /\ pc \in {"panic", "done"}
      /\ pc = "panic" => rw.out = <<>>
      /\ pc = "done" =>
            /\ rw.written
            /\ rw.out = <<[op |-> "http.Error", code |-> StatusInternalServerError]>>

\* C11 witness: the handler panicked after two Before that did not write, and
\* the request is over.
C11_Witness ==
  /\ pc = "done"
  /\ Len(Befores) = 2
  /\ \E n \in LogIdx : log[n].ev = "Panic" /\ log[n].by = "handler" /\ ~log[n].pre

\* ----------------------------------------------------------- ServeMux claims
\* The handler registered for a (pattern, method) pair.
HandlerOf(hs, pm) == hs[pm[1]][pm[2]]

\* The step is the Handle call that panics on a duplicate registration.
HandlePanics == panicMsg = "none" /\ panicMsg' = "method already registered"

\* C12: a Handle call for a (pattern, method) pair that already has a handler
\* panics and leaves every registered handler as it was; the only way the
\* handler table changes is a Handle call for a pair without handler, which
\* adds that pair (also under a pattern that has another method) and keeps
\* every handler registered before.
C12_DuplicateHandlePanics ==
  [][/\ HandlePanics => (pc' = "fatal" /\ mHandlers' = mHandlers)
     /\ mHandlers' # mHandlers =>
          /\ pc' = "setup" /\ panicMsg' = "none"
          /\ \E pm \in (Patterns \X Methods) \ Registered :
               Registered' = Registered \cup {pm}
          /\ \A pm \in Registered :
               HandlerOf(mHandlers', pm) = HandlerOf(mHandlers, pm)]_vars

\* Two methods were registered under one pattern, and a third Handle call for
\* one of the two pairs has panicked.
C12_Witness ==
  /\ pc = "fatal"
  /\ panicMsg = "method already registered"
  /\ \E p \in DOMAIN mHandlers : DOMAIN mHandlers[p] = Methods

\* The keys installed when the handler hi was registered.
InstalledAt(hi) == Range(SubSeq(mOrder, 1, hi.installed))

\* The positions in cfgs of the configs that match the interceptor key.
MatchesOf(cfgs, key) == {i \in 1..Len(cfgs) : Match(cfgs[i], key)}

\* The least of a non-empty set of numbers.
Least(S) == CHOOSE i \in S : \A j \in S : i <= j

\* The handler the request was routed to.
Routed == pc \in {"before", "inBefore", "handler", "inHandler", "done"} /\
          <<req.pattern, req.method>> \in Registered

\* C13: every interceptor that some config of the Handle call matches is
\* bound, in the handler's pipeline, to the first matching config in the
\* order the caller passed them.
C13_FirstMatchingConfigWins ==
  \A pm \in Registered :
    LET hi == HandlerOf(mHandlers, pm)
    IN  \A k \in InstalledAt(hi) :
          MatchesOf(hi.cfgs, k) # {} =>
            ConfigOf(hi.configs, k) = hi.cfgs[Least(MatchesOf(hi.cfgs, k))]

\* The configs of cfgs that match some interceptor of keys.
Effective(cfgs, keys) ==
  LET matchesSome(c) == \E k \in keys : Match(c, k)
  IN  SelectSeq(cfgs, matchesSome)

\* C14: an interceptor that no config of the Handle call matches has no
\* binding and its Before is invoked with the nil config; only installed
\* interceptors are bound, each to a config that matches it; and the bindings
\* are those the call makes without the configs that match no interceptor.
C14_UnmatchedGetsNilConfig ==
  /\ \A pm \in Registered :
       LET hi == HandlerOf(mHandlers, pm)
       IN  /\ DOMAIN hi.configs \subseteq InstalledAt(hi)
           /\ \A k \in InstalledAt(hi) :
                IF MatchesOf(hi.cfgs, k) = {}
                  THEN k \notin DOMAIN hi.configs /\ ConfigOf(hi.configs, k) = NilCfg
                  ELSE \E i \in MatchesOf(hi.cfgs, k) : hi.configs[k] = hi.cfgs[i]
           /\ hi.configs = cfgMap(Effective(hi.cfgs, InstalledAt(hi)), InstalledAt(hi))
  /\ Routed =>
       LET hi == HandlerOf(mHandlers, <<req.pattern, req.method>>)
       IN  \A n \in LogIdx :
             (log[n].ev = "Before" /\ MatchesOf(hi.cfgs, log[n].key) = {}) =>
               log[n].cfg = NilCfg

\* The handler was registered with a config that matches none of the
\* installed interceptors, and the Before of an interceptor has been invoked
\* with the nil config.
C14_Witness ==
  /\ Routed
  /\ LET hi == HandlerOf(mHandlers, <<req.pattern, req.method>>)
     IN  /\ hi.cfgs # <<>>
         /\ Effective(hi.cfgs, InstalledAt(hi)) = <<>>
         /\ \E n \in LogIdx : log[n].ev = "Before" /\ log[n].cfg = NilCfg

\* The Before invocations so far are, in order, those of the first interceptors
\* of order, each with its binding in cfgs.
RanPrefixOf(order, cfgs) ==
  LET ran == Befores
  IN  /\ Len(ran) <= Len(order)
      /\ \A n \in 1..Len(ran) :
           /\ ran[n].key = order[n]
           /\ ran[n].cfg = ConfigOf(cfgs, order[n])

\* The handler of the request has been invoked.
HandlerInvoked == \E n \in LogIdx : log[n].ev = "Handler"

\* Every registered handler keeps the interceptors installed before its
\* Handle call, in installation order, and a request routed to a handler
\* runs exactly these, each with the config bound at the Handle call.
PipelineAsInstalled ==
  /\ \A pm \in Registered :
       LET hi == HandlerOf(mHandlers, pm)
       IN  hi.intercepsOrder = SubSeq(mOrder, 1, hi.installed)
  /\ Routed =>
       LET hi == HandlerOf(mHandlers, <<req.pattern, req.method>>)
           installedBefore == SubSeq(mOrder, 1, hi.installed)
       IN  /\ RanPrefixOf(installedBefore, cfgMap(hi.cfgs, Range(installedBefore)))
           /\ HandlerInvoked => Len(Befores) = hi.installed

\* C15: the (interceptor, config) pairs executed for a handler are exactly
\* the interceptors installed before its Handle call, in installation order,
\* with the configs bound at that call; and no step (a later Install or Handle
\* among them) changes the sequence or the bindings of a registered handler.
C15_PipelineFixedAtHandle ==
  [][/\ PipelineAsInstalled'
     /\ \A pm \in Registered :
          /\ pm \in Registered'
          /\ HandlerOf(mHandlers', pm).intercepsOrder =
               HandlerOf(mHandlers, pm).intercepsOrder
          /\ HandlerOf(mHandlers', pm).configs = HandlerOf(mHandlers, pm).configs]_vars

\* A handler registered after one Install, and before a second one, has
\* served a request: one Before ran, then the handler.
C15_Witness ==
  /\ Routed
  /\ pc = "done"
  /\ HandlerInvoked
  /\ Len(mOrder) = 2
  /\ HandlerOf(mHandlers, <<req.pattern, req.method>>).installed = 1
  /\ Len(Befores) = 1

\* A request has been answered.
Answered == pc = "done" /\ req # NoReq

\* C16: a request whose host is not an allowed domain is answered with 404
\* and nothing else, whatever its path and method, and no interceptor or
\* handler runs for it.
C16_ForeignHostGets404 ==
  (Answered /\ req.host \notin Domains) =>
    /\ rw.out = <<[op |-> "http.Error", code |-> StatusNotFound]>>
    /\ log = <<>>

\* C17: a request from an allowed host whose path matches a registered
\* pattern that has no handler for the request's method is answered with 405
\* and nothing else, and no Before and no handler is invoked.
C17_UnregisteredMethodGets405 ==
  (/\ Answered
   /\ req.host \in Domains
   /\ req.pattern \in DOMAIN mHandlers
   /\ req.method \notin DOMAIN mHandlers[req.pattern]) =>
    /\ rw.out = <<[op |-> "http.Error", code |-> StatusMethodNotAllowed]>>
    /\ log = <<>>

\* A request below a registered subtree, with a method the subtree has no
\* handler for, was answered while an interceptor is installed.
C17_Witness ==
  /\ Answered
  /\ req.host \in Domains
  /\ req.pattern \in DOMAIN mHandlers
  /\ req.method \notin DOMAIN mHandlers[req.pattern]
  /\ req.path # req.pattern
  /\ mOrder # <<>>

\* The step is the Install call that panics on an installed key.
InstallPanics ==
  panicMsg = "none" /\ panicMsg' = "interceptor with same key already installed"

\* C20: an Install call with an installed key panics and leaves the
\* installed interceptors and the installation order as they were; the only
\* other change to them is an Install call with a new key, which appends the
\* key at the end of the installation order.
C20_InstallDuplicatePanics ==
  [][/\ InstallPanics =>
          (pc' = "fatal" /\ mInterceps' = mInterceps /\ mOrder' = mOrder)
     /\ (mInterceps' # mInterceps \/ mOrder' # mOrder) =>
          \E key \in Keys \ mInterceps :
            /\ mInterceps' = mInterceps \cup {key}
            /\ mOrder' = Append(mOrder, key)
            /\ pc' = "setup" /\ panicMsg' = "none"]_vars

\* Two keys were installed, the second at the end of the order, and a third
\* Install call with one of them has panicked.
C20_Witness ==
  /\ pc = "fatal"
  /\ panicMsg = "interceptor with same key already installed"
  /\ Len(mOrder) = 2
  /\ Range(mOrder) = mInterceps

\* ------------------------------------------------------------- Header claims
\* C18: a Claim call succeeds exactly when no earlier Claim call of the same
\* request, by whatever component, was for the same header name: the first
\* claim of a name succeeds, every later one of that name fails, and claims of
\* other names and claims of other requests make no difference.
C18_ClaimOncePerRequest ==
  \A n \in LogIdx :
    log[n].ev = "Claim" =>
      (log[n].ok <=>
         ~\E m \in 1..(n - 1) : /\ log[m].ev = "Claim"
                                /\ log[m].key = log[n].key
                                /\ log[m].cfg = log[n].cfg)

\* A header claimed in the first request was claimed in the second request,
\* with success, then claimed again by another component, without success,
\* and another header was claimed in the second request.
C18_Witness ==
  \E a, b, c, d \in LogIdx :
    /\ a < b /\ b < c
    /\ log[a].ev = "Claim" /\ log[a].key = 1 /\ log[a].ok
    /\ log[b].ev = "Claim" /\ log[b].key = 2 /\ log[b].ok
    /\ log[b].cfg = log[a].cfg
    /\ log[c].ev = "Claim" /\ log[c].key = 2 /\ ~log[c].ok
    /\ log[c].cfg = log[a].cfg /\ log[c].by # log[b].by
    /\ log[d].ev = "Claim" /\ log[d].key = 2 /\ log[d].ok /\ log[d].cfg # log[a].cfg

\* The step is a call of the csp Interceptor's Before.
CSPBeforeStep ==
  /\ Len(log') > Len(log)
  /\ log'[Len(log) + 1].ev = "Before"
  /\ log'[Len(log) + 1].by = "csp"

\* C19: when one of the two headers the csp Interceptor owns is claimed before
\* its Before is called, Before ends the request with the terminal write of a
\* 500 Internal Server Error and sets no header value.
C19_ClaimedHeaderGets500 ==
  [][(CSPBeforeStep /\ Range(CSPHeaders) \cap rw.claimed # {}) =>
       /\ pc' = "done"
       /\ rw'.written
       /\ rw'.out = Append(rw.out, [op |-> "http.Error",
                                     code |-> StatusInternalServerError])
       /\ rw'.set = rw.set]_vars

\* Before was called with the report-only header claimed, and has answered 500.
C19_Witness ==
  /\ pc = "done"
  /\ rw.written
  /\ \E n \in LogIdx :
       /\ log[n].ev = "Claim" /\ log[n].by = "csp" /\ ~log[n].ok
       /\ log[n].cfg = CSPHeaders[2] /\ log[n].key = idx

\* --------------------------------------------------------- response claims
\* The call at position i of the underlying writer emits the status line 200.
EmitsStatusOK(out, i) == out[i].op = "WriteHeader" /\ out[i].code = StatusOK

\* C23: once Write, WriteJSON or WriteTemplate has succeeded on an unwritten
\* ResponseWriter, the writer is written and the Content-Type the Dispatcher
\* returned was set on the underlying writer before the status line 200 was
\* emitted, so the response carries it.
C23_ContentTypeSentWithStatus ==
  \A n \in LogIdx :
    (log[n].ev \in {"Write", "WriteJSON", "WriteTemplate"} /\ log[n].ok /\ ~log[n].pre) =>
      /\ rw.written
      /\ \A i \in 1..Len(rw.out) :
           EmitsStatusOK(rw.out, i) =>
             \E j \in 1..(i - 1) : rw.out[j].op = "SetContentType"

\* C24: when ServeHTTP has returned normally, the ResponseWriter is written
\* and the underlying writer was handed exactly one response.
C24_NormalReturnHasOneResponse ==
  pc = "done" => (rw.written /\ Len(StatusCodes(rw.out)) = 1)

\* C25: while a request of a registered handler is served, the lookup
\* Interceptor(key) on its ResponseWriter returns an interceptor for the keys
\* installed before the handler's Handle call, and nil for every other key.
C25_LookupOnlyInPipeline ==
  (Routed /\ pc \in {"before", "inBefore", "inHandler"}) =>
    LET hi == HandlerOf(mHandlers, <<req.pattern, req.method>>)
    IN  \A key \in Keys :
          Interceptor(interceps, key) # NilInterceptor <=> key \in InstalledAt(hi)

\* -------------------------------------------------------------------- xsrf
StatusBadRequest == 400
StatusUnauthorized == 401
StatusForbidden == 403

\* The methods of requests, the tokens a form carries under TokenKey ("" when
\* it carries none), and the context of a request without token.
XsrfMethods == {"GET", "HEAD", "OPTIONS", "POST"}
Tokens == {"", "good", "bad"}
NoToken == "none"

\* A request as the xsrf Interceptor sees it: userErr, Identifier.UserID
\* fails; postFormErr and multipartErr, r.PostForm and r.MultipartForm fail;
\* formErr, f.Err() is not nil; tok, the token of the form that was parsed;
\* ctxToken, the token in the request's context.
XsrfReqs ==
  [method : XsrfMethods, userErr : BOOLEAN, postFormErr : BOOLEAN,
   multipartErr : BOOLEAN, formErr : BOOLEAN, tok : Tokens, ctxToken : {NoToken}]

allMethodsPreserving(method) == TRUE

\* statePreservingMethods[r.Method()]
statePreservingMethods(method) == method \in {"GET", "HEAD", "OPTIONS"}

\* xsrftoken.Valid(tok, i.SecretAppKey, userID, actionID)
Valid(tok) == tok = "good"

\* xsrftoken.Generate(i.SecretAppKey, userID, actionID)
Generate == "fresh"

\* The outcome of Before: the writer and the request afterwards, and whether
\* the call panicked.
XsrfRet(res, r) == [w |-> res.w, panic |-> res.panic, r |-> r]

\* xsrf.Interceptor.Before
xsrfBefore(w, r) ==
  IF r.userErr THEN XsrfRet(WriteError(w, StatusUnauthorized), r)
  ELSE IF ~statePreservingMethods(r.method) /\ r.postFormErr /\ r.multipartErr
    THEN XsrfRet(WriteError(w, StatusBadRequest), r)
  ELSE IF ~statePreservingMethods(r.method) /\ (r.formErr \/ r.tok = "")
    THEN XsrfRet(WriteError(w, StatusUnauthorized), r)
  ELSE IF ~statePreservingMethods(r.method) /\ ~Valid(r.tok)
    THEN XsrfRet(WriteError(w, StatusForbidden), r)
  ELSE XsrfRet(Ret(w, FALSE), [r EXCEPT !.ctxToken = Generate])

\* The Before loop of ServeHTTP calls the xsrf Interceptor and looks at
\* rw.written when it returns.
XsrfBefore ==
  /\ pc = "before"
  /\ idx < Len(intercepsOrder)
  /\ LET key == BeforeKey(intercepsOrder, idx)
         res == xsrfBefore(rw, req)
         called == Ev("Before", "engine", key, ConfigOf(configs, key), 0,
                      rw.written, TRUE)
         wrote == Ev("WriteError", "before", key, NilCfg,
                     res.w.out[Len(res.w.out)].code, rw.written, ~res.panic)
     IN  /\ rw' = res.w
         /\ req' = res.r
         /\ log' = IF res.w.out # rw.out THEN log \o <<called, wrote>>
                   ELSE Append(log, called)
         /\ IF res.panic THEN pc' = "panic" /\ idx' = idx
            ELSE IF BeforeStops(res.w) THEN pc' = "done" /\ idx' = idx
            ELSE pc' = "before" /\ idx' = idx + 1
  /\ UNCHANGED <<interceps, intercepsOrder, configs, pending, mInterceps,
                 mOrder, mHandlers, panicMsg>>

\* A handler with the xsrf Interceptor as its only interceptor is about to
\* serve a request.
InitXsrf ==
  /\ intercepsOrder = <<1>>
  /\ interceps = {1}
  /\ configs = <<>>
  /\ pc = "before"
  /\ idx = 0
  /\ rw = NewResponseWriter
  /\ pending = NoPending
  /\ log = <<>>
  /\ mInterceps = {}
  /\ mOrder = <<>>
  /\ mHandlers = <<>>
  /\ panicMsg = "none"
  /\ req \in XsrfReqs

NextXsrf ==
  \/ XsrfBefore
  \/ InvokeHandler
  \/ HandlerReturn

SpecXsrf == InitXsrf /\ [][NextXsrf]_vars

\* The response the claim expects for a request that is not let through.
XsrfRefusal(r) ==
  IF r.userErr THEN StatusUnauthorized
  ELSE IF r.postFormErr /\ r.multipartErr THEN StatusBadRequest
  ELSE IF r.formErr \/ r.tok = "" THEN StatusUnauthorized
  ELSE StatusForbidden

\* The user ID was resolved and the request is a GET, HEAD or OPTIONS or its
\* form carries a valid token.
XsrfAuthorized(r) ==
  /\ ~r.userErr
  /\ \/ r.method \in {"GET", "HEAD", "OPTIONS"}
     \/ /\ ~(r.postFormErr /\ r.multipartErr)
        /\ ~r.formErr
        /\ Valid(r.tok)

\* C22: once the xsrf Interceptor's Before has run, either the request is
\* authorized, nothing was written by it and a token is attached to the
\* request, or the request is not authorized, Before made exactly one
\* WriteError (401 for a failed user ID or a missing token, 400 for no form,
\* 403 for an invalid token), no token is attached and the handler is not run.
C22_XsrfGuardsHandler ==
  (\E n \in LogIdx : log[n].ev = "Before") =>
    IF XsrfAuthorized(req)
      THEN /\ \A n \in LogIdx : log[n].ev # "WriteError"
           /\ req.ctxToken = Generate
           /\ \A i \in 1..Len(rw.out) : rw.out[i].op # "http.Error"
      ELSE /\ pc = "done"
           /\ rw.written
           /\ rw.out = <<[op |-> "http.Error", code |-> XsrfRefusal(req)]>>
           /\ Cardinality({n \in LogIdx : log[n].ev = "WriteError"}) = 1
           /\ req.ctxToken = NoToken
           /\ ~HandlerInvoked

\* A POST whose token was read from the multipart form and is invalid has
\* been answered 403.
C22_Witness ==
  /\ pc = "done"
  /\ req.method = "POST"
  /\ ~req.userErr /\ req.postFormErr /\ ~req.multipartErr /\ ~req.formErr
  /\ req.tok = "bad"
  /\ rw.out = <<[op |-> "http.Error", code |-> StatusForbidden]>>

\* ------------------------------------------------------ concurrent requests
\* Requests served at the same time by one handlerWithInterceptors, each by
\* its own call of ServeHTTP.  In SpecConc pc, idx and rw hold one value for
\* each request: pc[r], idx[r] and rw[r] are locals of the call serving r.
Tasks == 1..MaxRequests

\* A handler with MaxInterceps interceptors.
FullOrder == [n \in 1..MaxInterceps |-> n]

NewResponseWriterShared(ws, r) == [q \in DOMAIN ws |-> NewResponseWriter]

\* rw := NewResponseWriter(h.disp, w, h.interceps, cp), a local of the call
NewResponseWriterFor(ws, r) == [ws EXCEPT ![r] = NewResponseWriter]

\* The outcomes of the write operations caller-supplied code may call.
UserWrites(w) ==
  {Write(w, FALSE, FALSE), Write(w, FALSE, TRUE), NoContent(w),
   WriteError(w, StatusForbidden)}

ConcStart ==
  \E r \in Tasks :
    /\ pc[r] = "idle"
    /\ rw' = NewResponseWriterFor(rw, r)
    /\ pc' = [pc EXCEPT ![r] = "before"]
    /\ idx' = [idx EXCEPT ![r] = 0]
    /\ UNCHANGED <<muxVars, interceps, intercepsOrder, configs, pending, log>>

ConcInvokeBefore ==
  \E r \in Tasks :
    /\ pc[r] = "before"
    /\ idx[r] < Len(intercepsOrder)
    /\ pc' = [pc EXCEPT ![r] = "inBefore"]
    /\ UNCHANGED <<muxVars, interceps, intercepsOrder, configs, pending, log,
                   idx, rw>>

ConcBeforeReturn ==
  \E r \in Tasks :
    /\ pc[r] = "inBefore"
    /\ IF BeforeStops(rw[r])
         THEN pc' = [pc EXCEPT ![r] = "done"] /\ idx' = idx
         ELSE pc' = [pc EXCEPT ![r] = "before"] /\
              idx' = [idx EXCEPT ![r] = @ + 1]
    /\ UNCHANGED <<muxVars, interceps, intercepsOrder, configs, pending, log, rw>>

ConcInvokeHandler ==
  \E r \in Tasks :
    /\ pc[r] = "before"
    /\ idx[r] >= Len(intercepsOrder)
    /\ pc' = [pc EXCEPT ![r] = "inHandler"]
    /\ UNCHANGED <<muxVars, interceps, intercepsOrder, configs, pending, log,
                   idx, rw>>

ConcHandlerReturn ==
  \E r \in Tasks :
    /\ pc[r] = "inHandler"
    /\ IF NeedsNoContent(rw[r])
         THEN LET res == NoContent(rw[r])
              IN  /\ rw' = [rw EXCEPT ![r] = res.w]
                  /\ pc' = [pc EXCEPT ![r] = IF res.panic THEN "panic" ELSE "done"]
         ELSE rw' = rw /\ pc' = [pc EXCEPT ![r] = "done"]
    /\ UNCHANGED <<muxVars, interceps, intercepsOrder, configs, pending, log, idx>>

ConcRecover ==
  \E r \in Tasks :
    /\ pc[r] = "panic"
    /\ LET res == WriteError(rw[r], StatusInternalServerError)
       IN  /\ rw' = [rw EXCEPT ![r] = res.w]
           /\ pc' = [pc EXCEPT ![r] = IF res.panic THEN "propagated" ELSE "done"]
    /\ UNCHANGED <<muxVars, interceps, intercepsOrder, configs, pending, log, idx>>

\* The interceptor or handler running for r calls a write operation.
ConcUserWrite ==
  \E r \in Tasks :
    /\ pc[r] \in {"inBefore", "inHandler"}
    /\ \E res \in UserWrites(rw[r]) :
         /\ rw' = [rw EXCEPT ![r] = res.w]
         /\ pc' = [pc EXCEPT ![r] = IF res.panic THEN "panic" ELSE @]
    /\ UNCHANGED <<muxVars, interceps, intercepsOrder, configs, pending, log, idx>>

\* The interceptor or handler running for r panics on its own.
ConcUserPanic ==
  \E r \in Tasks :
    /\ pc[r] \in {"inBefore", "inHandler"}
    /\ pc' = [pc EXCEPT ![r] = "panic"]
    /\ UNCHANGED <<muxVars, interceps, intercepsOrder, configs, pending, log,
                   idx, rw>>

InitConc ==
  /\ intercepsOrder = FullOrder
  /\ interceps = Range(FullOrder)
  /\ configs = <<>>
  /\ pc = [r \in Tasks |-> "idle"]
  /\ idx = [r \in Tasks |-> 0]
  /\ rw = [r \in Tasks |-> NewResponseWriter]
  /\ pending = NoPending
  /\ log = <<>>
  /\ NewServeMux

NextConc ==
  \/ ConcStart
  \/ ConcInvokeBefore
  \/ ConcBeforeReturn
  \/ ConcInvokeHandler
  \/ ConcHandlerReturn
  \/ ConcRecover
  \/ ConcUserWrite
  \/ ConcUserPanic

SpecConc == InitConc /\ [][NextConc]_vars

\* What the call of ServeHTTP serving r holds.
Local(r) == <<pc[r], idx[r], rw[r]>>

====
